---------------------------- MODULE Spec2Model ----------------------------
(***************************************************************************)
(* Model of msipatch.py: the path resolver (MSIPathResolver), the table    *)
(* patch engine (InstallerDatabaseTables) and the two orchestrations       *)
(* (inject_file_into_msi, inject_custom_action_into_msi).                  *)
(*                                                                         *)
(* Representation.                                                         *)
(*  - An .idt table is the sequence of its lines, a line is the tuple of   *)
(*    its tab-separated columns.  Directory.idt keeps its three header     *)
(*    lines because modify_directory_idt reads them; the other tables are  *)
(*    modelled by their data lines only.                                   *)
(*  - Identifiers are strings.  A path segment after the first is a tuple  *)
(*    of one-character strings, so that str.title() and str.isalnum() are  *)
(*    computed character by character.                                     *)
(*  - Python's None is the value None below; written through an f-string   *)
(*    it becomes the text "None" (str).                                    *)
(*  - Columns no operation reads (guid, file size, titles, ...) are left   *)
(*    out of the rows.                                                     *)
(***************************************************************************)
EXTENDS Integers, Sequences, FiniteSets, TLC

(***************************************************************************)
(* Bounds of the model                                                     *)
(***************************************************************************)
\* number of patch runs in one behaviour
MaxOps == 2
\* number of path segments after the first one
MaxDepth == 2

(***************************************************************************)
(* Python values and string helpers                                        *)
(***************************************************************************)
None == "<None>"

\* f"{x}"
str(x) == IF x = None THEN "None" ELSE x

\* truthiness of an Optional[str]
truthy(x) == x # None /\ x # ""

LowerChars == <<"a","b","c","d","e","f","g","h","i","j","k","l","m",
                "n","o","p","q","r","s","t","u","v","w","x","y","z">>
UpperChars == <<"A","B","C","D","E","F","G","H","I","J","K","L","M",
                "N","O","P","Q","R","S","T","U","V","W","X","Y","Z">>
DigitChars == <<"0","1","2","3","4","5","6","7","8","9">>

Range(s) == { s[i] : i \in DOMAIN s }

UpperSet == Range(UpperChars)
LowerSet == Range(LowerChars)
DigitSet == Range(DigitChars)

isupper(c) == c \in UpperSet
islower(c) == c \in LowerSet
iscased(c) == isupper(c) \/ islower(c)
isalnum(c) == iscased(c) \/ c \in DigitSet

upper(c) == IF islower(c)
            THEN UpperChars[CHOOSE i \in DOMAIN LowerChars : LowerChars[i] = c]
            ELSE c
lowerc(c) == IF isupper(c)
             THEN LowerChars[CHOOSE i \in DOMAIN UpperChars : UpperChars[i] = c]
             ELSE c

\* str.title() on a tuple of characters: a cased character is upper-cased
\* when the previous character is not cased, lower-cased otherwise
RECURSIVE titleFrom(_, _)
titleFrom(cs, prevCased) ==
  IF cs = <<>> THEN <<>>
  ELSE LET c == Head(cs)
       IN <<IF iscased(c) THEN (IF prevCased THEN lowerc(c) ELSE upper(c)) ELSE c>>
          \o titleFrom(Tail(cs), iscased(c))
title(cs) == titleFrom(cs, FALSE)

\* ''.join(cs)
RECURSIVE join(_)
join(cs) == IF cs = <<>> THEN "" ELSE Head(cs) \o join(Tail(cs))

\* str.lower() on the whole strings that reach add_folder: the first path
\* segment as typed by the user and the parent ids of FOLDER_MAP
lower(s) ==
  CASE s = "WindowsFolder"        -> "windowsfolder"
    [] s = "ProgramFilesFolder"   -> "programfilesfolder"
    [] s = "ProgramFiles64Folder" -> "programfiles64folder"
    [] s = "PersonalFolder"       -> "personalfolder"
    [] s = "StartMenuFolder"      -> "startmenufolder"
    [] s = "Program Files"        -> "program files"
    [] s = "System32"             -> "system32"
    [] OTHER                      -> s

(***************************************************************************)
(* MSIPathResolver                                                         *)
(***************************************************************************)
Archs == {"x86", "x64"}

SixtyFour(arch, a, b) == IF arch = "x64" THEN a ELSE b

\* the dictionary built by __init__, with each lambda applied to arch
FolderMapFor(arch) ==
  "windows" :> <<"WindowsFolder", "TARGETDIR", "Windows">> @@
  "system32" :> SixtyFour(arch, <<"System64Folder", "WindowsFolder", "System64">>,
                                <<"SystemFolder", "WindowsFolder", "System32">>) @@
  "systemfolder" :> SixtyFour(arch, <<"System64Folder", "WindowsFolder", "System64">>,
                                    <<"SystemFolder", "WindowsFolder", "System32">>) @@
  "syswow64" :> SixtyFour(arch, <<"SystemFolder", "WindowsFolder", "SysWOW64">>,
                                <<"System64Folder", "WindowsFolder", "SysWOW64">>) @@
  "fonts" :> <<"FontsFolder", "WindowsFolder", "Fonts">> @@
  "program files" :> SixtyFour(arch, <<"ProgramFiles64Folder", "TARGETDIR", "ProgramFiles">>,
                                     <<"ProgramFilesFolder", "TARGETDIR", "ProgramFiles">>) @@
  "program files (x86)" :> <<"ProgramFilesFolder", "TARGETDIR", "ProgramFiles (x86)">> @@
  "common files" :> SixtyFour(arch, <<"CommonFiles64Folder", "ProgramFiles64Folder", "Common Files">>,
                                    <<"CommonFilesFolder", "ProgramFilesFolder", "Common Files">>) @@
  "programdata" :> <<"CommonAppDataFolder", "TARGETDIR", "CommonAppData">> @@
  "users" :> <<"ProfilesFolder", "TARGETDIR", "Users">> @@
  "personalfolder" :> <<"PersonalFolder", "TARGETDIR", "Documents">> @@
  "appdata" :> <<"AppDataFolder", "TARGETDIR", "AppData">> @@
  "localappdata" :> <<"LocalAppDataFolder", "TARGETDIR", "LocalAppData">> @@
  "desktop" :> <<"DesktopFolder", "TARGETDIR", "Desktop">> @@
  "documents" :> <<"PersonalFolder", "TARGETDIR", "Documents">> @@
  "downloads" :> <<"DownloadsFolder", "PersonalFolder", "Downloads">> @@
  "start menu" :> <<"StartMenuFolder", "TARGETDIR", "Start Menu">> @@
  "programs" :> <<"ProgramsFolder", "StartMenuFolder", "Programs">> @@
  "startup" :> <<"StartupFolder", "TARGETDIR", "Startup">> @@
  "sendto" :> <<"SendToFolder", "TARGETDIR", "SendTo">> @@
  "templates" :> <<"TemplatesFolder", "TARGETDIR", "Templates">> @@
  "favorites" :> <<"FavoritesFolder", "TARGETDIR", "Favorites">> @@
  "recent" :> <<"RecentFolder", "TARGETDIR", "Recent">> @@
  "nethood" :> <<"NetHoodFolder", "TARGETDIR", "NetHood">> @@
  "printhood" :> <<"PrintHoodFolder", "TARGETDIR", "PrintHood">> @@
  "common desktop" :> <<"CommonDesktopFolder", "TARGETDIR", "Desktop">> @@
  "common programs" :> <<"CommonProgramsFolder", "TARGETDIR", "Programs">> @@
  "common start menu" :> <<"CommonStartMenuFolder", "TARGETDIR", "Start Menu">> @@
  "common startup" :> <<"CommonStartupFolder", "TARGETDIR", "Startup">> @@
  "admin tools" :> <<"AdminToolsFolder", "TARGETDIR", "AdminTools">> @@
  "common admin tools" :> <<"CommonAdminToolsFolder", "TARGETDIR", "AdminTools">> @@
  "internet" :> <<"InternetFolder", "TARGETDIR", "Internet">> @@
  "pictures" :> <<"MyPicturesFolder", "PersonalFolder", "My Pictures">> @@
  "music" :> <<"MyMusicFolder", "PersonalFolder", "My Music">> @@
  "videos" :> <<"MyVideoFolder", "PersonalFolder", "My Videos">> @@
  "temp" :> <<"TempFolder", "TARGETDIR", "Temp">> @@
  "system64folder" :> <<"System64Folder", "WindowsFolder", "System64">> @@
  "programfilesfolder" :> <<"ProgramFilesFolder", "TARGETDIR", "ProgramFiles">> @@
  "programfiles64folder" :> <<"ProgramFiles64Folder", "TARGETDIR", "ProgramFiles">> @@
  "commonfilesfolder" :> <<"CommonFilesFolder", "ProgramFilesFolder", "Common Files">> @@
  "commonfiles64folder" :> <<"CommonFiles64Folder", "ProgramFiles64Folder", "Common Files">> @@
  "windowsfolder" :> <<"WindowsFolder", "TARGETDIR", "Windows">>

FolderMaps == [arch \in Archs |-> FolderMapFor(arch)]

\* self.FOLDER_MAP of MSIPathResolver(arch)
FOLDER_MAP(arch) == FolderMaps[arch]

Aliases == DOMAIN FOLDER_MAP("x86")

\* ids of the entries collected so far: {e[0] for e in entries}
EntryIds(entries) == { entries[i][1] : i \in DOMAIN entries }

\* add_folder(key) with the closure variable entries made explicit;
\* the result is the returned id and the entries after the call
RECURSIVE add_folder(_, _, _)
add_folder(arch, key, entries) ==
  LET key_lower == lower(key)
  IN IF key_lower \notin DOMAIN FOLDER_MAP(arch)
     THEN [ret |-> None, entries |-> entries]
     ELSE LET entry     == FOLDER_MAP(arch)[key_lower]
              folder_id == entry[1]
              parent_id == entry[2]
              withParent ==
                IF truthy(parent_id) /\ parent_id # "TARGETDIR" /\ lower(parent_id) # key_lower
                THEN add_folder(arch, parent_id, entries).entries
                ELSE entries
          IN [ret     |-> folder_id,
              entries |-> IF folder_id \notin EntryIds(withParent)
                          THEN Append(withParent, entry)
                          ELSE withParent]

\* variant of _make_directory_id that ignores the parent
_make_directory_id_flat(name, parent_id) == join(SelectSeq(title(name), isalnum))

\* clean = ''.join(c for c in name.title() if c.isalnum())
clean(name) == join(SelectSeq(title(name), isalnum))

_make_directory_id(name, parent_id) ==
  IF truthy(parent_id) THEN parent_id \o "_" \o clean(name) ELSE clean(name)

\* the loop over parts[1:]
RECURSIVE add_parts(_, _, _)
add_parts(rest, parent_id, entries) ==
  IF rest = <<>> THEN entries
  ELSE LET dir_id == _make_directory_id(Head(rest), parent_id)
       IN add_parts(Tail(rest), dir_id,
                    Append(entries, <<dir_id, parent_id, join(Head(rest))>>))

\* parts is input_path.replace("/", "\\").split("\\"), which always has a
\* first element: parts[1] is a whole string, the others are character tuples
get_required_directory_entries(arch, parts) ==
  LET first == add_folder(arch, parts[1], <<>>)
  IN add_parts(Tail(parts), first.ret, first.entries)

(***************************************************************************)
(* InstallerDatabaseTables                                                 *)
(***************************************************************************)
\* the files the tool reads and writes in its working directory
IdtFiles == {"Feature.idt", "Directory.idt", "File.idt", "Component.idt",
             "Media.idt", "FeatureComponents.idt", "CustomAction.idt",
             "InstallExecuteSequence.idt", "Binary.idt"}

\* header lines of Directory.idt as msidump writes them
DirectoryHeader == << <<"Directory", "Directory_Parent", "DefaultDir">>,
                      <<"s72", "S72", "l255">>,
                      <<"Directory", "Directory">> >>

\* header lines modify_custom_action_idt writes into a new CustomAction.idt
CustomActionHeader == << <<"Action", "Type", "Source", "Target">>,
                         <<"s72", "i2", "s72", "L0">>,
                         <<"CustomAction", "Action">> >>

\* lines[3].split("\t")[1] of Media.idt (data lines only: the first one)
get_last_sequence_from_media_idt(media) == media[1][2]

\* line.startswith(prefix) for the first column of a Feature.idt line
startswith(cs, prefix) ==
  Len(cs) >= Len(prefix) /\ SubSeq(cs, 1, Len(prefix)) = prefix

\* the Feature.idt lines get_top_level_feature does not skip and accepts
IsTopLevelLine(line) ==
  /\ ~startswith(line[1], <<"s">>)
  /\ ~startswith(line[1], <<"F","e","a","t","u","r","e">>)
  /\ line[2] = ""

\* first accepted line's feature name, None when the RuntimeError is raised
get_top_level_feature(feature) ==
  LET hits == { i \in DOMAIN feature : IsTopLevelLine(feature[i]) }
  IN IF hits = {} THEN None
     ELSE join(feature[CHOOSE i \in hits : \A j \in hits : i <= j][1])

\* variant of first_free without the loop
first_free_unchecked(candidate, sequence_numbers) == candidate

\* while candidate in sequence_numbers: candidate += step
RECURSIVE first_free(_, _)
first_free(candidate, sequence_numbers) ==
  IF candidate \in sequence_numbers
  THEN first_free(candidate + 1, sequence_numbers)
  ELSE candidate

\* the data lines whose action is the anchor (after_action = "InstallFiles")
anchor_lines(ies) == { i \in DOMAIN ies : ies[i][1] = "InstallFiles" }

\* after_action_seq: the loop keeps the sequence of the last anchor line
after_action_seq(ies) ==
  ies[CHOOSE i \in anchor_lines(ies) : \A j \in anchor_lines(ies) : j <= i][3]

\* raised stands for the ValueError of a missing anchor
get_next_install_sequence_number(ies) ==
  LET sequence_numbers == { ies[i][3] : i \in DOMAIN ies }
  IN IF anchor_lines(ies) = {}
     THEN [raised |-> TRUE, value |-> 0]
     ELSE [raised |-> FALSE,
           value |-> first_free(after_action_seq(ies) + 1, sequence_numbers)]

modify_file_idt(file, file_cab_name, component_name, file_dest_name, file_sequence_number) ==
  Append(file, <<file_cab_name, component_name, file_dest_name, file_sequence_number>>)

modify_component_idt(comp, component_name, file_dest_dir, file_cab_name) ==
  Append(comp, <<component_name, str(file_dest_dir), file_cab_name>>)

modify_feature_components_idt(featcomp, top_feature, component_name) ==
  Append(featcomp, <<top_feature, component_name>>)

\* variant of modify_media_idt that leaves the line as it was
modify_media_idt_stale(media, file_sequence_number) == media

\* parts[1] = str(file_sequence_number) in the first data line
modify_media_idt(media, file_sequence_number) ==
  [media EXCEPT ![1][2] = file_sequence_number]

\* insert ins into lines before position at (0-based list.insert index)
InsertAt(lines, at, ins) ==
  SubSeq(lines, 1, at) \o ins \o SubSeq(lines, at + 1, Len(lines))

\* the loop over needed_entries: the lines to insert and the returned key
RECURSIVE missing_entries(_, _, _)
missing_entries(needed, existing_dirs, acc) ==
  IF needed = <<>> THEN acc
  ELSE LET entry == Head(needed)
       IN IF entry[1] \notin existing_dirs
          THEN missing_entries(Tail(needed), existing_dirs,
                 [ins |-> Append(acc.ins, <<entry[1], str(entry[2]), entry[3]>>),
                  key |-> entry[1]])
          ELSE missing_entries(Tail(needed), existing_dirs, acc)

\* result: the lines written to Directory.idt and the returned file_dest_dir_key
modify_directory_idt(lines, arch, destination_path) ==
  LET existing_dirs == { lines[i][1] : i \in { j \in DOMAIN lines : Len(lines[j]) >= 2 } }
      needed_entries == get_required_directory_entries(arch, destination_path)
      hdr == { i \in DOMAIN lines : lines[i] = DirectoryHeader[1] }
      insert_index == IF hdr = {} THEN Len(lines)
                      ELSE (CHOOSE i \in hdr : \A j \in hdr : i <= j) - 1 + 3
      m == missing_entries(needed_entries, existing_dirs, [ins |-> <<>>, key |-> None])
  IN [lines |-> InsertAt(lines, insert_index, m.ins), key |-> m.key]

\* variant of the returned list with File before Component
file_dropper_ret_swapped ==
  <<"Directory.idt", "File.idt", "Component.idt", "FeatureComponents.idt", "Media.idt">>

\* the list file_dropper returns
file_dropper_ret ==
  <<"Directory.idt", "Component.idt", "File.idt", "FeatureComponents.idt", "Media.idt">>

\* variant of file_dropper that looks the feature up after the Directory step
file_dropper_late_lookup(t, arch, component_name, file_cab_name, file_dest_name, file_dest_dir) ==
  LET file_sequence_number == get_last_sequence_from_media_idt(t["Media.idt"]) + 1
      d == modify_directory_idt(t["Directory.idt"], arch, file_dest_dir)
      top_feature == get_top_level_feature(t["Feature.idt"])
      withDirectory == [t EXCEPT !["Directory.idt"] = d.lines]
  IN IF top_feature = None
     THEN [t |-> withDirectory, raised |-> "RuntimeError", ret |-> <<>>]
     ELSE [t |-> [withDirectory EXCEPT
                   !["File.idt"] = modify_file_idt(@, file_cab_name, component_name,
                                                   file_dest_name, file_sequence_number),
                   !["Component.idt"] = modify_component_idt(@, component_name, d.key,
                                                             file_cab_name),
                   !["FeatureComponents.idt"] =
                       modify_feature_components_idt(@, top_feature, component_name),
                   !["Media.idt"] = modify_media_idt(@, file_sequence_number)],
           raised |-> "",
           ret |-> file_dropper_ret]

\* t: the tables of the working directory.  Result: the tables afterwards,
\* the exception raised ("" when none) and the returned list
file_dropper(t, arch, component_name, file_cab_name, file_dest_name, file_dest_dir) ==
  LET file_sequence_number == get_last_sequence_from_media_idt(t["Media.idt"]) + 1
      top_feature == get_top_level_feature(t["Feature.idt"])
      d == modify_directory_idt(t["Directory.idt"], arch, file_dest_dir)
  IN IF top_feature = None
     THEN [t |-> t, raised |-> "RuntimeError", ret |-> <<>>]
     ELSE [t |-> [t EXCEPT
                   !["Directory.idt"] = d.lines,
                   !["File.idt"] = modify_file_idt(@, file_cab_name, component_name,
                                                   file_dest_name, file_sequence_number),
                   !["Component.idt"] = modify_component_idt(@, component_name, d.key,
                                                             file_cab_name),
                   !["FeatureComponents.idt"] =
                       modify_feature_components_idt(@, top_feature, component_name),
                   !["Media.idt"] = modify_media_idt(@, file_sequence_number)],
           raised |-> "",
           ret |-> file_dropper_ret]

\* result: the Binary.idt lines afterwards; the returned key is file_name,
\* the base name of file_path up to its first dot
modify_binary_idt(binary, file_name) ==
  Append(binary, <<file_name, "Binary." \o file_name>>)

modify_install_execute_sequence_idt(ies, action_name) ==
  Append(ies, <<action_name, "", get_next_install_sequence_number(ies).value>>)

\* a table file that may not exist: [exists, lines]
modify_custom_action_idt(customact, action_name, action_type, action_source, action_target) ==
  [exists |-> TRUE,
   lines  |-> Append(IF customact.exists THEN customact.lines ELSE CustomActionHeader,
                     <<action_name, action_type, action_source, action_target>>)]

exe_action_type(is_async) == IF is_async THEN 2 + 192 ELSE 2

\* variant of dll_action_type that adds the bits of the exe kind
dll_action_type_exe_bits(is_async) == IF is_async THEN 1 + 192 ELSE 1

dll_action_type(is_async) == IF is_async THEN 1 + 64 ELSE 1

preinstalled_action_type == 226

embedded_action_ret == <<"Binary.idt", "CustomAction.idt", "InstallExecuteSequence.idt">>

preinstalled_action_ret == <<"CustomAction.idt", "InstallExecuteSequence.idt">>

\* run_custom_exe_action and run_custom_dll_action differ in the type only
run_custom_embedded_action(t, file_name, action_name, action_type, action_target) ==
  LET withBinary == [t EXCEPT !["Binary.idt"] = modify_binary_idt(@, file_name)]
  IN IF get_next_install_sequence_number(t["InstallExecuteSequence.idt"]).raised
     THEN [t |-> withBinary, raised |-> "ValueError", ret |-> <<>>]
     ELSE [t |-> [withBinary EXCEPT
                   !["InstallExecuteSequence.idt"] =
                       modify_install_execute_sequence_idt(@, action_name),
                   !["CustomAction.idt"] =
                       modify_custom_action_idt(@, action_name, action_type,
                                                file_name, action_target)],
           raised |-> "",
           ret |-> embedded_action_ret]

run_custom_exe_action(t, file_name, action_name, is_async, exe_args) ==
  run_custom_embedded_action(t, file_name, action_name, exe_action_type(is_async), exe_args)

run_custom_dll_action(t, file_name, action_name, is_async, exported_function) ==
  run_custom_embedded_action(t, file_name, action_name, dll_action_type(is_async),
                             exported_function)

run_custom_preinstalled_exe_action(t, action_name, command) ==
  IF get_next_install_sequence_number(t["InstallExecuteSequence.idt"]).raised
  THEN [t |-> t, raised |-> "ValueError", ret |-> <<>>]
  ELSE [t |-> [t EXCEPT
                !["InstallExecuteSequence.idt"] =
                    modify_install_execute_sequence_idt(@, action_name),
                !["CustomAction.idt"] =
                    modify_custom_action_idt(@, action_name, preinstalled_action_type,
                                             "INSTALLDIR", command)],
        raised |-> "",
        ret |-> preinstalled_action_ret]

(***************************************************************************)
(* CabinetFile and MSITool: the external tools, by their effect            *)
(***************************************************************************)
\* msidump -t -s: the working directory receives the tables and the cabinet
\* (under _Streams) of the package
dump(package) == package

\* sub in cs, for tuples of characters
Contains(cs, sub) ==
  \E i \in 1..(Len(cs) - Len(sub) + 1) : SubSeq(cs, i, i + Len(sub) - 1) = sub

\* cabextract -l: for each member, in the order of the cabinet, one line with
\* size, date, time and name; the line is given as the words line.split()
\* yields.  Member names are tuples of characters without white space.
cabextract_l(cab) ==
  [i \in DOMAIN cab |->
     << <<"1","0","2","4">>, <<"|">>, <<"0","1",".","0","1",".","2","0","2","0">>,
        <<"1","2",":","0","0",":","0","0">>, <<"|">>, cab[i] >>]

\* "files" in line or "archive" in line
is_summary_line(parts) ==
  \E w \in Range(parts) : \/ Contains(w, <<"f","i","l","e","s">>)
                          \/ Contains(w, <<"a","r","c","h","i","v","e">>)

\* the loop over result.stdout.splitlines()
RECURSIVE get_file_name_list_in_order(_)
get_file_name_list_in_order(listing) ==
  IF listing = <<>> THEN <<>>
  ELSE LET parts == Head(listing)
           rest  == get_file_name_list_in_order(Tail(listing))
       IN IF ~is_summary_line(parts) /\ Len(parts) >= 5
          THEN <<parts[Len(parts)]>> \o rest
          ELSE rest

\* the members given to gcab -c: the listed ones, then the new one
rebuild_cab_from_dir(cab, additional_file_name) ==
  Append(get_file_name_list_in_order(cabextract_l(cab)), additional_file_name)

\* copy of the original package with one msibuild -i per returned table
rebuild_msi_from_idts(original, t, idt_list_in_order) ==
  [f \in DOMAIN original |-> IF f \in Range(idt_list_in_order) THEN t[f] ELSE original[f]]

\* msibuild -a
embed_cab_file(package, cab) == [package EXCEPT !["_Streams"] = cab]

(***************************************************************************)
(* Inputs and initial packages                                             *)
(***************************************************************************)
\* first path segments tried by inject-file: two aliases, one unknown name
FirstSegments == {"System32", "programs", "foo"}

\* later path segments: "my app" and "-" (no alphanumeric character)
SegNames == { <<"m","y"," ","a","p","p">>, <<"-">> }

Tails(names) == UNION { [1..n -> names] : n \in 0..MaxDepth }

DestPaths == { <<f>> \o tl : f \in FirstSegments, tl \in Tails(SegNames) }

\* destinations of the runs that mix inject-file and inject-action
JointDestPaths == { <<"System32">>, <<"programs">>, <<"foo">>,
                    <<"Program Files", <<"m","y"," ","a","p","p">> >> }

\* first segments and later segments for calls of the resolver alone
ResolveFirstSegments == Aliases \cup {"Program Files", "System32", "foo", ""}

ResolveSegNames == { <<"m","y"," ","a","p","p">>, <<"M","Y","A","P","P">>,
                     <<"m","y","-","a","p","p">>, <<"b","i","n">>, <<"-">> }

ActionNames == {"MyAction", "InstallFiles"}

FeatureComplete == <<"C","o","m","p","l","e","t","e">>
FeatureDocs     == <<"D","o","c","s">>
FeatureServer   == <<"s","e","r","v","e","r">>

DirectoryRoot == <<"TARGETDIR", "", "SourceDir">>

\* names of cabinet members
AppExe     == <<"a","p","p",".","e","x","e">>
AppDll     == <<"a","p","p",".","d","l","l">>
ArchiveDll == <<"a","r","c","h","i","v","e",".","d","l","l">>
EvilDll    == <<"e","v","i","l",".","d","l","l">>

BasePackage ==
  [f \in IdtFiles \cup {"_Streams"} |->
     CASE f = "Feature.idt" -> << <<FeatureComplete, "">>, <<FeatureDocs, "Complete">> >>
       [] f = "Directory.idt" ->
            DirectoryHeader \o << DirectoryRoot,
                                  <<"ProgramFilesFolder", "TARGETDIR", ".">>,
                                  <<"INSTALLDIR", "ProgramFilesFolder", "App">> >>
       [] f = "File.idt" -> << <<"app.exe", "MainComponent", "app.exe", 1>>,
                               <<"app.dll", "MainComponent", "app.dll", 2>> >>
       [] f = "Component.idt" -> << <<"MainComponent", "INSTALLDIR", "app.exe">> >>
       [] f = "Media.idt" -> << <<1, 2, "#app.cab">> >>
       [] f = "FeatureComponents.idt" -> << <<"Complete", "MainComponent">> >>
       [] f = "CustomAction.idt" ->
            [exists |-> TRUE,
             lines |-> Append(CustomActionHeader, <<"SetDir", 51, "INSTALLDIR", "[TARGETDIR]">>)]
       [] f = "InstallExecuteSequence.idt" ->
            << <<"CostInitialize", "", 800>>, <<"InstallFiles", "", 4000>>,
               <<"InstallFinalize", "", 6600>> >>
       [] f = "Binary.idt" -> <<>>
       [] f = "_Streams" -> <<AppExe, AppDll>>]

\* a package without CustomAction table, whose sequence numbers after the
\* anchor are partly taken, and with a file named archive.dll
CrowdedPackage ==
  [BasePackage EXCEPT
     !["File.idt"] = << <<"app.exe", "MainComponent", "app.exe", 1>>,
                        <<"archive.dll", "MainComponent", "archive.dll", 2>> >>,
     !["_Streams"] = <<AppExe, ArchiveDll>>,
     !["Directory.idt"] = Append(DirectoryHeader, DirectoryRoot),
     !["Component.idt"] = << <<"MainComponent", "TARGETDIR", "app.exe">> >>,
     !["CustomAction.idt"] = [exists |-> FALSE, lines |-> <<>>],
     !["InstallExecuteSequence.idt"] =
        << <<"InstallValidate", "", 4003>>, <<"InstallFiles", "", 4000>>,
           <<"RegisterProduct", "", 4001>>, <<"PublishProduct", "", 4002>> >>]

\* a package with neither a top-level feature nor the anchor action
BarePackage ==
  [CrowdedPackage EXCEPT
     !["Feature.idt"] = << <<FeatureDocs, "Complete">> >>,
     !["InstallExecuteSequence.idt"] = << <<"CostInitialize", "", 800>> >>]

\* a package whose only top-level feature is named "server"
ServerPackage ==
  [BasePackage EXCEPT
     !["Feature.idt"] = << <<FeatureServer, "">> >>,
     !["FeatureComponents.idt"] = << <<"server", "MainComponent">> >>]

Packages == {BasePackage, CrowdedPackage, BarePackage, ServerPackage}

(***************************************************************************)
(* State                                                                   *)
(***************************************************************************)
VARIABLES
  msi,       \* the package: its tables and its cabinet
  temp_dir,  \* the working directory msipatch_temp as the last run left it
  last,      \* the last run: its arguments, the exception, the returned list
  nops,      \* number of runs so far
  resolver,  \* a call of get_required_directory_entries on its own
  orch       \* a run taken one external tool invocation at a time

vars == <<msi, temp_dir, last, nops, resolver, orch>>

NoRun == [op |-> "none", raised |-> "", ret |-> <<>>, arch |-> "x86",
          dest |-> <<>>, component_name |-> "", file_cab_name |-> "",
          action_name |-> "", is_async |-> FALSE]

NoCall == [arch |-> "x86", parts |-> <<"">>, entries |-> <<>>, done |-> FALSE]

\* msipatch_temp right after os.makedirs, and patched.msi before it exists
EmptyDir ==
  [f \in IdtFiles \cup {"_Streams"} |->
     IF f = "CustomAction.idt" THEN [exists |-> FALSE, lines |-> <<>>] ELSE <<>>]

NoOrch == [op |-> "none", pc |-> "done", status |-> "idle", raised |-> "",
           trace |-> <<>>, arch |-> "x86", dest |-> <<>>, action_name |-> "",
           is_async |-> FALSE, extract_dir |-> {}, file_list |-> <<>>,
           ret |-> <<>>, next |-> 1, patched |-> EmptyDir]

Init ==
  /\ msi \in Packages
  /\ temp_dir = msi
  /\ last = NoRun
  /\ nops = 0
  /\ resolver = NoCall
  /\ orch = NoOrch

\* inject_file_into_msi
InjectFile(arch, file_cab_name, file_dest_dir, component_name) ==
  /\ nops < MaxOps
  /\ LET staged == [dump(msi) EXCEPT !["_Streams"] = rebuild_cab_from_dir(@, file_cab_name)]
         r == file_dropper(staged, arch, component_name, join(file_cab_name),
                           join(file_cab_name), file_dest_dir)
     IN /\ temp_dir' = r.t
        /\ msi' = IF r.raised = ""
                  THEN embed_cab_file(rebuild_msi_from_idts(msi, r.t, r.ret), r.t["_Streams"])
                  ELSE msi
        /\ last' = [NoRun EXCEPT !.op = "file", !.raised = r.raised, !.ret = r.ret,
                                 !.arch = arch, !.dest = file_dest_dir,
                                 !.component_name = component_name,
                                 !.file_cab_name = join(file_cab_name)]
  /\ nops' = nops + 1
  /\ UNCHANGED <<resolver, orch>>

\* inject_custom_action_into_msi
InjectAction(action_type, action_file, action_name, is_async, action_args) ==
  /\ nops < MaxOps
  /\ LET t == dump(msi)
         r == CASE action_type = "exe" ->
                     run_custom_exe_action(t, action_file, action_name, is_async, action_args)
                [] action_type = "dll" ->
                     run_custom_dll_action(t, action_file, action_name, is_async, action_args)
                [] action_type = "cmd" ->
                     run_custom_preinstalled_exe_action(t, action_name, action_args)
     IN /\ temp_dir' = r.t
        /\ msi' = IF r.raised = "" THEN rebuild_msi_from_idts(msi, r.t, r.ret) ELSE msi
        /\ last' = [NoRun EXCEPT !.op = action_type, !.raised = r.raised, !.ret = r.ret,
                                 !.action_name = action_name, !.is_async = is_async]
  /\ nops' = nops + 1
  /\ UNCHANGED <<resolver, orch>>

\* get_required_directory_entries called directly
Resolve ==
  /\ ~resolver.done
  /\ resolver' = [resolver EXCEPT
                    !.entries = get_required_directory_entries(resolver.arch, resolver.parts),
                    !.done = TRUE]
  /\ UNCHANGED <<msi, temp_dir, last, nops, orch>>

\* runs of both kinds, with the destinations of JointDestPaths
Next ==
  \/ \E arch \in Archs, d \in JointDestPaths :
       InjectFile(arch, EvilDll, d, "MyComponent")
  \/ \E k \in {"exe", "dll", "cmd"}, n \in ActionNames, a \in BOOLEAN :
       InjectAction(k, "payload", n, a, "run")

Spec == Init /\ [][Next]_vars

\* inject-file runs only, with every destination of DestPaths
NextFile ==
  \E arch \in Archs, d \in DestPaths :
    InjectFile(arch, EvilDll, d, "MyComponent")

SpecFile == Init /\ [][NextFile]_vars

\* inject-action runs only
NextAction ==
  \E k \in {"exe", "dll", "cmd"}, n \in ActionNames, a \in BOOLEAN :
    InjectAction(k, "payload", n, a, "run")

SpecAction == Init /\ [][NextAction]_vars

\* the resolver alone, on every alias, both architectures and every tail
InitResolve ==
  /\ msi = BasePackage
  /\ temp_dir = msi
  /\ last = NoRun
  /\ nops = 0
  /\ orch = NoOrch
  /\ \E arch \in Archs, f \in ResolveFirstSegments, tl \in Tails(ResolveSegNames) :
       resolver = [arch |-> arch, parts |-> <<f>> \o tl, entries |-> <<>>, done |-> FALSE]

SpecResolve == InitResolve /\ [][Resolve]_vars

(***************************************************************************)
(* The two orchestrations, one external tool invocation per step           *)
(***************************************************************************)
\* exit statuses of an external tool
ReturnCodes == {0, 1}

\* variant of _run_command that ignores the exit status
_run_command_unchecked(returncode, error_message) == ""

\* MSITool._run_command: the message of the RuntimeError, "" when none
_run_command(returncode, error_message) ==
  IF returncode # 0 THEN error_message ELSE ""

\* the run o with one more invocation on its record
Logged(o, tool, arg, returncode) ==
  [o EXCEPT !.trace = Append(@, <<tool, arg, returncode>>)]

\* an exception leaves the orchestration: nothing catches it
Abort(o, message) ==
  [o EXCEPT !.status = "failed", !.pc = "done", !.raised = message]

\* where rebuild_msi_from_idts and its caller go once table i - 1 is inserted
AfterInsert(o, i) ==
  IF i <= Len(o.ret) THEN [o EXCEPT !.pc = "insert", !.next = i]
  ELSE IF o.op = "file" THEN [o EXCEPT !.pc = "embed", !.next = i]
  ELSE [o EXCEPT !.pc = "done", !.status = "ok", !.next = i]

\* msitool.dump()
OrchDump ==
  /\ orch.status = "running" /\ orch.pc = "dump"
  /\ \E returncode \in ReturnCodes :
       LET raised == _run_command(returncode, "msidump failed")
           o == Logged(orch, "msidump", "", returncode)
       IN IF raised # ""
          THEN orch' = Abort(o, raised) /\ UNCHANGED temp_dir
          ELSE /\ temp_dir' = dump(msi)
               /\ orch' = [o EXCEPT !.pc = IF o.op = "file" THEN "extract" ELSE "engine"]
  /\ UNCHANGED <<msi, last, nops, resolver>>

\* cabinet_file.extract()
OrchExtract ==
  /\ orch.status = "running" /\ orch.pc = "extract"
  /\ \E returncode \in ReturnCodes :
       LET o == Logged(orch, "cabextract -d", "", returncode)
       IN IF returncode # 0
          THEN orch' = Abort(o, "cabextract failed")
          ELSE orch' = [o EXCEPT !.pc = "copy",
                                 !.extract_dir = Range(temp_dir["_Streams"])]
  /\ UNCHANGED <<msi, temp_dir, last, nops, resolver>>

\* cabinet_file.copy_file_to_extracted_dir(inject_file_path, file_cab_name)
OrchCopy ==
  /\ orch.status = "running" /\ orch.pc = "copy"
  /\ orch' = [Logged(orch, "copy", "", 0) EXCEPT
                !.pc = "list", !.extract_dir = @ \cup {EvilDll}]
  /\ UNCHANGED <<msi, temp_dir, last, nops, resolver>>

\* rebuild_cab_from_dir up to file_list.append(additional_file_name)
OrchList ==
  /\ orch.status = "running" /\ orch.pc = "list"
  /\ \E returncode \in ReturnCodes :
       LET o == Logged(orch, "cabextract -l", "", returncode)
       IN IF returncode # 0
          THEN orch' = Abort(o, "cabextract failed")
          ELSE orch' = [o EXCEPT !.pc = "gcab",
                                 !.file_list = rebuild_cab_from_dir(temp_dir["_Streams"], EvilDll)]
  /\ UNCHANGED <<msi, temp_dir, last, nops, resolver>>

\* rebuild_cab_from_dir from the gcab command on; gcab can only pack the
\* files that are in the directory
OrchBuild ==
  /\ orch.status = "running" /\ orch.pc = "gcab"
  /\ \E returncode \in ReturnCodes :
       LET o == Logged(orch, "gcab -c", "", returncode)
       IN /\ returncode = 0 => Range(orch.file_list) \subseteq orch.extract_dir
          /\ IF returncode # 0
             THEN orch' = Abort(o, "gcab failed") /\ UNCHANGED temp_dir
             ELSE /\ orch' = [o EXCEPT !.pc = "engine"]
                  /\ temp_dir' = [temp_dir EXCEPT !["_Streams"] = orch.file_list]
  /\ UNCHANGED <<msi, last, nops, resolver>>

\* idt.file_dropper(...) or idt.run_custom_..._action(...)
OrchEngine ==
  /\ orch.status = "running" /\ orch.pc = "engine"
  /\ LET r == CASE orch.op = "file" ->
                     file_dropper(temp_dir, orch.arch, "MyComponent", join(EvilDll),
                                  join(EvilDll), orch.dest)
                [] orch.op = "exe" ->
                     run_custom_exe_action(temp_dir, "payload", orch.action_name,
                                           orch.is_async, "run")
                [] orch.op = "dll" ->
                     run_custom_dll_action(temp_dir, "payload", orch.action_name,
                                           orch.is_async, "run")
                [] orch.op = "cmd" ->
                     run_custom_preinstalled_exe_action(temp_dir, orch.action_name, "run")
         o == Logged(orch, "engine", "", 0)
     IN /\ temp_dir' = r.t
        /\ orch' = IF r.raised # "" THEN Abort(o, r.raised)
                   ELSE [o EXCEPT !.pc = "copy_msi", !.ret = r.ret]
  /\ UNCHANGED <<msi, last, nops, resolver>>

\* rebuild_msi_from_idts: shutil.copy(original_msi_file_path, patched_msi_file_path)
OrchCopyMsi ==
  /\ orch.status = "running" /\ orch.pc = "copy_msi"
  /\ orch' = [AfterInsert(Logged(orch, "copy_msi", "", 0), 1) EXCEPT !.patched = msi]
  /\ UNCHANGED <<msi, temp_dir, last, nops, resolver>>

\* rebuild_msi_from_idts: one turn of the loop, msibuild -i
OrchInsert ==
  /\ orch.status = "running" /\ orch.pc = "insert"
  /\ \E returncode \in ReturnCodes :
       LET idt == orch.ret[orch.next]
           raised == _run_command(returncode, "Failed to insert " \o idt)
           o == Logged(orch, "msibuild -i", idt, returncode)
       IN IF raised # ""
          THEN orch' = Abort(o, raised)
          ELSE orch' = [AfterInsert(o, orch.next + 1) EXCEPT
                          !.patched = rebuild_msi_from_idts(@, temp_dir, <<idt>>)]
  /\ UNCHANGED <<msi, temp_dir, last, nops, resolver>>

\* msitool.embed_cab_file(cab_file_path)
OrchEmbed ==
  /\ orch.status = "running" /\ orch.pc = "embed"
  /\ \E returncode \in ReturnCodes :
       LET raised == _run_command(returncode, "Failed to embed CAB file")
           o == Logged(orch, "msibuild -a", "", returncode)
       IN IF raised # ""
          THEN orch' = Abort(o, raised)
          ELSE orch' = [o EXCEPT !.pc = "done", !.status = "ok",
                                 !.patched = embed_cab_file(@, temp_dir["_Streams"])]
  /\ UNCHANGED <<msi, temp_dir, last, nops, resolver>>

\* one run of either kind on a fresh working directory
InitOrch ==
  /\ msi \in Packages
  /\ temp_dir = EmptyDir
  /\ last = NoRun
  /\ nops = 0
  /\ resolver = NoCall
  /\ \/ \E arch \in Archs, d \in JointDestPaths :
          orch = [NoOrch EXCEPT !.op = "file", !.pc = "dump", !.status = "running",
                                !.arch = arch, !.dest = d]
     \/ \E k \in {"exe", "dll", "cmd"}, n \in ActionNames, a \in BOOLEAN :
          orch = [NoOrch EXCEPT !.op = k, !.pc = "dump", !.status = "running",
                                !.action_name = n, !.is_async = a]

NextOrch ==
  \/ OrchDump
  \/ OrchExtract
  \/ OrchCopy
  \/ OrchList
  \/ OrchBuild
  \/ OrchEngine
  \/ OrchCopyMsi
  \/ OrchInsert
  \/ OrchEmbed

SpecOrch == InitOrch /\ [][NextOrch]_vars

(***************************************************************************)
(* Properties                                                              *)
(***************************************************************************)
\* data lines of Directory.idt
DirectoryRows(package) ==
  SubSeq(package["Directory.idt"], Len(DirectoryHeader) + 1, Len(package["Directory.idt"]))

DirectoryIds(package) == { r[1] : r \in Range(DirectoryRows(package)) }

LastLine(lines) == lines[Len(lines)]

FileSequences(package) == { r[4] : r \in Range(package["File.idt"]) }

LastSequence(package) == package["Media.idt"][1][2]

FileRunOk(l) == l.op = "file" /\ l.raised = ""

ActionOps == {"exe", "dll", "cmd"}

ActionRunOk(l) == l.op \in ActionOps /\ l.raised = ""

\* C1: in every state MediaRow.lastSequence is the maximum FileRow.sequence,
\* and every successful inject-file run appends exactly one FileRow whose
\* sequence is the lastSequence of before the run plus one.
C1_Theorem ==
  /\ [](/\ LastSequence(msi) \in FileSequences(msi)
        /\ \A q \in FileSequences(msi) : q <= LastSequence(msi))
  /\ [][FileRunOk(last') =>
          /\ Len(msi'["File.idt"]) = Len(msi["File.idt"]) + 1
          /\ SubSeq(msi'["File.idt"], 1, Len(msi["File.idt"])) = msi["File.idt"]
          /\ LastLine(msi'["File.idt"])[4] = LastSequence(msi) + 1]_vars

\* a second successful inject-file run: the first took sequence 3, this one 4
C1_Witness ==
  /\ FileRunOk(last) /\ nops = 2
  /\ LastLine(msi["File.idt"])[4] = 4
  /\ msi["File.idt"][Len(msi["File.idt"]) - 1][4] = 3
  /\ LastSequence(msi) = 4

IesSequences(ies) == { r[3] : r \in Range(ies) }

Distinct(ies) == \A i, j \in DOMAIN ies : i # j => ies[i][3] # ies[j][3]

\* C2: every successful inject-action run appends one execution-sequence row
\* whose sequenceNumber is greater than the sequence of (every row named)
\* InstallFiles, is used by no row present before the run, and has only used
\* numbers between the anchor and itself; sequence numbers stay distinct.
C2_Theorem ==
  /\ [](Distinct(msi["InstallExecuteSequence.idt"]))
  /\ [][ActionRunOk(last') =>
          LET old == msi["InstallExecuteSequence.idt"]
              new == msi'["InstallExecuteSequence.idt"]
              n   == LastLine(new)[3]
          IN /\ Len(new) = Len(old) + 1
             /\ SubSeq(new, 1, Len(old)) = old
             /\ n \notin IesSequences(old)
             /\ \A i \in DOMAIN old :
                  old[i][1] = "InstallFiles" =>
                    /\ n > old[i][3]
                    /\ \A m \in (old[i][3] + 1)..(n - 1) : m \in IesSequences(old)]_vars

\* with 4001..4003 taken, two runs got 4004 and 4005
C2_Witness ==
  /\ ActionRunOk(last) /\ nops = 2
  /\ LastLine(msi["InstallExecuteSequence.idt"])[3] = 4005
  /\ {4000, 4001, 4002, 4003, 4004} \subseteq IesSequences(msi["InstallExecuteSequence.idt"])

LastCustomAction(package) == LastLine(package["CustomAction.idt"].lines)

\* C6: the typeCode of the CustomAction row a successful run writes is 2
\* (exe), 194 (asynchronous exe), 1 (dll), 65 (asynchronous dll) and 226
\* (preinstalled command, asynchronous or not).
C6_Theorem ==
  ActionRunOk(last) =>
    /\ LastCustomAction(msi)[1] = last.action_name
    /\ LastCustomAction(msi)[2] =
         CASE last.op = "exe" /\ ~last.is_async -> 2
           [] last.op = "exe" /\ last.is_async  -> 194
           [] last.op = "dll" /\ ~last.is_async -> 1
           [] last.op = "dll" /\ last.is_async  -> 65
           [] last.op = "cmd"                   -> 226

\* an asynchronous dll action was written with type 65
C6_Witness ==
  /\ ActionRunOk(last) /\ last.op = "dll" /\ last.is_async
  /\ LastCustomAction(msi)[2] = 65

KnownAlias(first) == lower(first) \in Aliases

\* C3 (as claimed): after a successful inject-file run whose first path
\* segment is a known alias, the directoryId of the ComponentRow it wrote is
\* the id of a row of the Directory table.
C3_Claim ==
  (FileRunOk(last) /\ KnownAlias(last.dest[1])) =>
     LastLine(msi["Component.idt"])[2] \in DirectoryIds(msi)

\* the row of the Directory table with the given id, if any
RowsOf(package, id) == { r \in Range(DirectoryRows(package)) : r[1] = id }

\* parentId is the root sentinel, or the id of another row (the root row
\* itself has an empty parent)
ParentPresent(package, r) ==
  \/ r[1] = "TARGETDIR" /\ r[2] = ""
  \/ r[2] = "TARGETDIR"
  \/ r[2] # r[1] /\ r[2] \in DirectoryIds(package)

\* following parentId from id for at most fuel steps reaches the root
RECURSIVE ReachesRoot(_, _, _)
ReachesRoot(package, id, fuel) ==
  \/ id = "TARGETDIR"
  \/ /\ fuel > 0
     /\ \E r \in RowsOf(package, id) : ReachesRoot(package, r[2], fuel - 1)

\* C4 (as claimed): after a successful inject-file run whose first path
\* segment is a known alias, every node the path resolves to is in the
\* Directory table with a parentId that is the root sentinel or the id of
\* another row, and its chain of parents ends at the root without a cycle.
C4_Claim ==
  (FileRunOk(last) /\ KnownAlias(last.dest[1])) =>
     \A e \in Range(get_required_directory_entries(last.arch, last.dest)) :
        /\ RowsOf(msi, e[1]) # {}
        /\ \A r \in RowsOf(msi, e[1]) : ParentPresent(msi, r)
        /\ ReachesRoot(msi, e[1], Len(DirectoryRows(msi)))

UniqueDirectoryIds(package) ==
  \A i, j \in DOMAIN DirectoryRows(package) :
     i # j => DirectoryRows(package)[i][1] # DirectoryRows(package)[j][1]

SameDestination(l1, l2) == l1.dest = l2.dest /\ l1.arch = l2.arch

\* C5 (as claimed): a successful inject-file run that repeats the
\* destination and architecture of the successful run before it adds no
\* Directory row, and in every state no Directory id is in two rows.
C5_Claim ==
  /\ [][(FileRunOk(last) /\ FileRunOk(last') /\ SameDestination(last, last'))
          => msi'["Directory.idt"] = msi["Directory.idt"]]_vars
  /\ [](UniqueDirectoryIds(msi))

\* C8 (as claimed): an inject-file run whose first path segment is not in
\* the alias table raises, and writes no row.
C8_Claim ==
  (last.op = "file" /\ ~KnownAlias(last.dest[1])) =>
     /\ last.raised # ""
     /\ \A f \in IdtFiles : temp_dir[f] = msi[f]

NoTopLevelFeature(package) == \A r \in Range(package["Feature.idt"]) : r[2] # ""

NoAnchor(package) ==
  \A r \in Range(package["InstallExecuteSequence.idt"]) : r[1] # "InstallFiles"

\* the run failed, the package and the tables in keep are as before the run
FailedKeeping(keep) ==
  /\ last'.raised # ""
  /\ msi' = msi
  /\ \A f \in keep : temp_dir'[f] = msi[f]

\* C7 (as claimed): inject-file on a package without top-level feature, and
\* inject-action of any kind on a package without InstallFiles row, fail
\* and change neither a table nor the package.
C7_Claim ==
  [][/\ (last'.op = "file" /\ NoTopLevelFeature(msi)) => FailedKeeping(IdtFiles)
     /\ (last'.op \in ActionOps /\ NoAnchor(msi)) => FailedKeeping(IdtFiles)]_vars

\* C7 (amended): both fail and leave the package as it was; inject-file and
\* the preinstalled-command kind change no table, the embedded kinds change
\* no table but Binary, to which their row has already been appended.
C7_Theorem ==
  [][/\ (last'.op = "file" /\ NoTopLevelFeature(msi)) => FailedKeeping(IdtFiles)
     /\ (last'.op = "cmd" /\ NoAnchor(msi)) => FailedKeeping(IdtFiles)
     /\ (last'.op \in {"exe", "dll"} /\ NoAnchor(msi)) =>
           /\ FailedKeeping(IdtFiles \ {"Binary.idt"})
           /\ temp_dir'["Binary.idt"] =
                Append(msi["Binary.idt"], <<"payload", "Binary.payload">>)]_vars

\* a failed embedded-exe run left its Binary row in the working directory,
\* after a failed inject-file run on the same package
C7_Witness ==
  /\ last.op = "exe" /\ last.raised = "ValueError" /\ nops = 2
  /\ NoAnchor(msi) /\ NoTopLevelFeature(msi)
  /\ Len(temp_dir["Binary.idt"]) = Len(msi["Binary.idt"]) + 1
  /\ msi = BarePackage

\* C9: a successful run returns Directory, Component, File,
\* FeatureComponents, Media (inject-file), Binary, CustomAction,
\* InstallExecuteSequence (embedded exe and dll), CustomAction,
\* InstallExecuteSequence (preinstalled command); a table that is not in the
\* returned list is the same before and after the run, in the working
\* directory and in the package.
C9_Theorem ==
  [][(last'.op # "none" /\ last'.raised = "") =>
       /\ last'.ret =
            CASE last'.op = "file" ->
                   <<"Directory.idt", "Component.idt", "File.idt",
                     "FeatureComponents.idt", "Media.idt">>
              [] last'.op \in {"exe", "dll"} ->
                   <<"Binary.idt", "CustomAction.idt", "InstallExecuteSequence.idt">>
              [] last'.op = "cmd" ->
                   <<"CustomAction.idt", "InstallExecuteSequence.idt">>
       /\ \A f \in IdtFiles \ Range(last'.ret) :
            temp_dir'[f] = msi[f] /\ msi'[f] = msi[f]
       /\ \A f \in Range(last'.ret) : msi'[f] = temp_dir'[f]]_vars

\* a preinstalled-command run succeeded after an embedded one: Binary kept
\* the one row of the embedded run
C9_Witness ==
  /\ last.op = "cmd" /\ last.raised = "" /\ nops = 2
  /\ last.ret = <<"CustomAction.idt", "InstallExecuteSequence.idt">>
  /\ Len(msi["Binary.idt"]) = 1

OtherArch(arch) == IF arch = "x64" THEN "x86" ELSE "x64"

ProgramFilesCall == resolver.done /\ lower(resolver.parts[1]) = "program files"

ProgramFilesNode(arch) ==
  IF arch = "x64" THEN <<"ProgramFiles64Folder", "TARGETDIR", "ProgramFiles">>
  ELSE <<"ProgramFilesFolder", "TARGETDIR", "ProgramFiles">>

\* n+1 nodes, the program-files node first, then one node per segment whose
\* parentId is the id of the node before it
ProgramFilesChain(arch, parts, entries) ==
  /\ Len(entries) = Len(parts)
  /\ entries[1] = ProgramFilesNode(arch)
  /\ \A i \in 2..Len(entries) :
       /\ entries[i][2] = entries[i - 1][1]
       /\ entries[i][3] = join(parts[i])

\* C10 (as claimed): the chain above, and apart from the first node the
\* nodes are the same for the two architectures.
C10_Claim ==
  ProgramFilesCall =>
    LET other == get_required_directory_entries(OtherArch(resolver.arch), resolver.parts)
    IN /\ ProgramFilesChain(resolver.arch, resolver.parts, resolver.entries)
       /\ Tail(resolver.entries) = Tail(other)

\* C10 (amended): the chain above; apart from the first node the nodes of
\* the two architectures have the same names, while the id and the parentId
\* of each differ between the architectures.
C10_Theorem ==
  ProgramFilesCall =>
    LET other == get_required_directory_entries(OtherArch(resolver.arch), resolver.parts)
    IN /\ ProgramFilesChain(resolver.arch, resolver.parts, resolver.entries)
       /\ ProgramFilesChain(OtherArch(resolver.arch), resolver.parts, other)
       /\ \A i \in 2..Len(resolver.entries) :
            /\ resolver.entries[i][3] = other[i][3]
            /\ resolver.entries[i][1] # other[i][1]
            /\ resolver.entries[i][2] # other[i][2]

\* "Program Files\my app\bin" under 64-bit targeting
C10_Witness ==
  /\ resolver.done /\ resolver.arch = "x64"
  /\ resolver.parts = <<"Program Files", <<"m","y"," ","a","p","p">>, <<"b","i","n">> >>
  /\ resolver.entries =
       << <<"ProgramFiles64Folder", "TARGETDIR", "ProgramFiles">>,
          <<"ProgramFiles64Folder_MyApp", "ProgramFiles64Folder", "my app">>,
          <<"ProgramFiles64Folder_MyApp_Bin", "ProgramFiles64Folder_MyApp", "bin">> >>

\* id of the last node of a resolved path
LeafId(entries) == entries[Len(entries)][1]

\* C11 (as claimed): for a fixed architecture and a known first segment, a
\* path with other later segments than the resolved one (another name in some
\* position, or another number of segments) has a leaf node with another id.
C11_Claim ==
  (resolver.done /\ KnownAlias(resolver.parts[1])) =>
     \A tl \in Tails(ResolveSegNames) :
        tl # Tail(resolver.parts) =>
          LeafId(get_required_directory_entries(resolver.arch, <<resolver.parts[1]>> \o tl))
            # LeafId(resolver.entries)

\* C12 (as claimed): resolving an alias alone gives a non-empty list without
\* duplicate ids, whose last entry is the node of the alias for the
\* architecture, and in which every node whose parentId is not TARGETDIR
\* comes after the node with that id.
C12_Claim ==
  (resolver.done /\ resolver.parts \in { <<a>> : a \in Aliases }) =>
     LET es == resolver.entries
     IN /\ es # <<>>
        /\ \A i, j \in DOMAIN es : i # j => es[i][1] # es[j][1]
        /\ es[Len(es)] = FOLDER_MAP(resolver.arch)[resolver.parts[1]]
        /\ \A i \in DOMAIN es :
             es[i][2] # "TARGETDIR" => \E j \in 1..(i - 1) : es[j][1] = es[i][2]

\* C14 (as claimed): after a successful inject-file run whose first path
\* segment is a known alias, the directoryId of the ComponentRow it wrote is
\* the id of the last node of the resolved path.
C14_Claim ==
  (FileRunOk(last) /\ KnownAlias(last.dest[1])) =>
     LastLine(msi["Component.idt"])[2] =
       LeafId(get_required_directory_entries(last.arch, last.dest))

\* the Feature rows with an empty parentFeatureId
TopLevelRows(package) ==
  { i \in DOMAIN package["Feature.idt"] : package["Feature.idt"][i][2] = "" }

\* C16 (as claimed): an inject-file run on a package whose Feature table has
\* exactly one row with empty parent succeeds and appends exactly the link
\* (id of that row, new component), whose component is the ComponentRow the
\* run wrote.
C16_Claim ==
  [][(last'.op = "file" /\ Cardinality(TopLevelRows(msi)) = 1) =>
       LET top == msi["Feature.idt"][CHOOSE i \in TopLevelRows(msi) : TRUE][1]
       IN /\ last'.raised = ""
          /\ msi'["FeatureComponents.idt"] =
               Append(msi["FeatureComponents.idt"], <<join(top), last'.component_name>>)
          /\ LastLine(msi'["Component.idt"])[1] = last'.component_name]_vars

\* the invocations of a run so far, as <<tool, argument>>
Invocations(o) == [i \in DOMAIN o.trace |-> <<o.trace[i][1], o.trace[i][2]>>]

\* the external tools among the steps
ExternalTools ==
  {"msidump", "cabextract -d", "cabextract -l", "gcab -c", "msibuild -i", "msibuild -a"}

\* C13: when an external tool invocation (msidump, cabextract -d,
\* cabextract -l, gcab, msibuild -i, msibuild -a) of an inject-file or
\* inject-action run exits with a non-zero status, that invocation is the last
\* step of the run and the run has failed; a failed run takes no further step;
\* and no invocation is made twice.
C13_Theorem ==
  /\ [](\A i \in DOMAIN orch.trace :
          orch.trace[i][3] # 0 =>
            /\ i = Len(orch.trace)
            /\ orch.status = "failed"
            /\ orch.raised # "")
  /\ [](\A i, j \in DOMAIN orch.trace :
          i # j => Invocations(orch)[i] # Invocations(orch)[j])
  /\ [](orch.status = "ok" => \A i \in DOMAIN orch.trace : orch.trace[i][3] = 0)
  /\ [][orch.status = "running" /\ orch'.trace = Append(orch.trace, LastLine(orch'.trace))]_vars

\* C13 witness: the insertion of the second table failed, in a run of each
\* kind the first table is in patched.msi and nothing else followed
C13_Witness ==
  /\ orch.status = "failed"
  /\ Len(orch.trace) >= 2
  /\ LastLine(orch.trace)[1] = "msibuild -i"
  /\ LastLine(orch.trace)[3] # 0
  /\ orch.trace[Len(orch.trace) - 1][1] = "msibuild -i"
  /\ orch.next = 2

\* the steps of a successful inject-file run, in the order of the claim
FileRunSteps ==
  << <<"msidump", "">>, <<"cabextract -d", "">>, <<"copy", "">>,
     <<"cabextract -l", "">>, <<"gcab -c", "">>, <<"engine", "">>,
     <<"copy_msi", "">>,
     <<"msibuild -i", "Directory.idt">>, <<"msibuild -i", "Component.idt">>,
     <<"msibuild -i", "File.idt">>, <<"msibuild -i", "FeatureComponents.idt">>,
     <<"msibuild -i", "Media.idt">>, <<"msibuild -a", "">> >>

\* the steps of a successful inject-file run are those of FileRunSteps, no
\* table of the working directory changes before the dump
C15_Order ==
  /\ []((orch.op = "file" /\ orch.status = "ok") => Invocations(orch) = FileRunSteps)
  /\ []((orch.op = "file" /\ orch.status = "ok") =>
          \A f \in Range(orch.ret) : orch.patched[f] = temp_dir[f])
  /\ [][\A f \in IdtFiles :
          temp_dir'[f] # temp_dir[f] =>
            (orch.pc = "dump" \/ <<"msidump", "", 0>> \in Range(orch.trace))]_vars

\* C15 (as claimed): a successful inject-file run takes the steps dump,
\* extract, stage, rebuild archive, engine, insert every returned table, embed
\* in this order, and the rebuilt archive that it embeds holds the original
\* members in their original order followed by the new member.
C15_Claim ==
  (orch.op = "file" /\ orch.status = "ok") =>
     /\ Invocations(orch) = FileRunSteps
     /\ orch.patched["_Streams"] = Append(msi["_Streams"], EvilDll)

=============================================================================
